---- MODULE Spec2Model ----
(***************************************************************************)
(* Order-lifecycle engine of src/trading.py: OrderManager.execute_order    *)
(* and its helpers, the per-order _monitor_order threads, the saving of    *)
(* recovery.json and the recovery of OrderManager state at startup, and    *)
(* the scheduling loop of main.                                            *)
(*                                                                         *)
(* Prices, sizes and balances are integers; the float comparisons of the   *)
(* source are cross-multiplied so that no division is needed.              *)
(***************************************************************************)
EXTENDS Integers, Sequences, FiniteSets, TLC

\* ---------------------------------------------------------------- bounds
\* number of order ids the exchange hands out in one run
MaxOrders == 2
\* length of the 120 s monitoring window, in units of the 5 s poll sleep
MaxPolls == 2
\* number of clock ticks (seconds) after startup
MaxClock == 2
\* number of symbols in TRADE_SYMBOLS
MaxSymbols == 2
\* time followed in safe_request, in units of 0.05 s
MaxTime == 4

\* ------------------------------------------------------ program constants
\* CONFIG['MAX_SLIPPAGE'], in percent
MAX_SLIPPAGE == 1
\* CONFIG['LEVERAGE']
LEVERAGE == 2
\* CONFIG['MAX_OPEN_ORDERS']
MAX_OPEN_ORDERS == 2
\* CONFIG['INITIAL_BALANCE']
INITIAL_BALANCE == 150
\* get_current_price(symbol, retries=3)
PRICE_RETRIES == 3
\* load_recovery_state: a snapshot older than this many seconds is discarded
RECOVERY_MAX_AGE == 3600

\* ------------------------------------------------------------ value sets
\* the threads that call execute_order: the scheduling loop of main, and a
\* second thread that calls it at the same time
\* CONFIG['TRADING_TYPE']: the API the program trades on
TradingTypes == {"futures", "spot"}

MainThread == "main"
Callers == {MainThread, "other"}
OrderIds == 1..MaxOrders
Free == "free"

\* what the exchange answers to a request: an exception, an answer without
\* the wanted item, or a value
Raises == [kind |-> "raises", v |-> 0]
Missing == [kind |-> "missing", v |-> 0]
Value(x) == [kind |-> "value", v |-> x]

\* answers to a ticker request (and to the 1m kline used as the backup)
PriceResponses == {Raises} \cup {Value(p) : p \in {101, 105}}
\* answers to a balance request; Missing is an account that lists no USDT
BalanceResponses == {Raises, Missing, Value(60), Value(100)}

Signals ==
    { [symbol |-> "BTCUSDT", type |-> "MOMENTUM", price |-> 100, size |-> s] :
        s \in {1, 3} }

\* keys of open_orders: the exchange's integer order id in a live run, the
\* same id as a string once it went through recovery.json
IntKey(n) == [kind |-> "int", n |-> n]
StrKey(n) == [kind |-> "str", n |-> n]

StartupTime == 2 * RECOVERY_MAX_AGE

NoFile == [state |-> "missing"]
Unreadable == [state |-> "unreadable"]
Snapshot(ts, oo, th) ==
    [state |-> "ok", timestamp |-> ts, open_orders |-> oo, trade_history |-> th]

OldSignal == [symbol |-> "BTCUSDT", type |-> "SWING", price |-> 100, size |-> 1]
OldEntry(n) == [signal |-> OldSignal, order |-> n]
OldTrade ==
    [symbol |-> "BTCUSDT", side |-> "BUY", size |-> 1,
     timestamp |-> StartupTime - 2 * RECOVERY_MAX_AGE, signal_type |-> "SWING"]

\* the recovery.json files a previous run can have left behind
OldOrders == [k \in {StrKey(MaxOrders + 1)} |-> OldEntry(MaxOrders + 1)]
RecoveryFiles ==
    { NoFile,
      Snapshot(StartupTime - RECOVERY_MAX_AGE, OldOrders, <<OldTrade>>),
      Snapshot(StartupTime - RECOVERY_MAX_AGE - 1, OldOrders, <<OldTrade>>) }

VARIABLES
    main_pc,         \* position of main(): "startup" or "running"
    recovery_file,   \* content of recovery.json
    open_orders,     \* OrderManager.open_orders
    trade_history,   \* OrderManager.trade_history
    position_lock,   \* OrderManager.position_lock: Free or the holding caller
    pc,              \* position of each thread calling execute_order
    call,            \* locals and effects of each caller's current call
    next_order_id,   \* next orderId the exchange assigns
    exch_status,     \* exchange-side status of each main order
    mon,             \* the _monitor_order thread of each order id
    trading_type,    \* CONFIG['TRADING_TYPE']
    max_open_orders, \* CONFIG['MAX_OPEN_ORDERS']
    clock,           \* time.time()
    previous_run,    \* what the OrderManager held when the snapshot was taken
    main_loop,       \* locals and position of the scheduling loop of main
    gate,            \* the client's last_call, the threads in safe_request
    eval             \* a function under evaluation: arguments and result

vars == <<main_pc, recovery_file, open_orders, trade_history, position_lock,
          pc, call, next_order_id, exch_status, mon, trading_type,
          max_open_orders, gate, eval, clock, previous_run, main_loop>>

\* ------------------------------------------------------- pure functions
Abs(x) == IF x < 0 THEN -x ELSE x

\* None, as returned by get_current_price
NoPrice == 0

\* get_current_price: up to PRICE_RETRIES ticker requests; after the last
\* one failed, the close of the latest 1m kline is the backup
RECURSIVE PriceAttempt(_, _, _)
PriceAttempt(i, resps, backup) ==
    IF i > PRICE_RETRIES THEN NoPrice
    ELSE IF resps[i].kind = "value" THEN resps[i].v
    ELSE IF i = PRICE_RETRIES /\ backup.kind = "value" THEN backup.v
    ELSE PriceAttempt(i + 1, resps, backup)

get_current_price(resps, backup) == PriceAttempt(1, resps, backup)

\* (variant: None when the read fails or lists no USDT)
BalanceAbsentOnFailure(resp) ==
    IF resp.kind = "value" THEN resp.v ELSE NoPrice
\* _get_account_balance: the USDT balance, or INITIAL_BALANCE when the read
\* raises or lists no USDT
get_account_balance(resp) ==
    IF resp.kind = "value" THEN resp.v ELSE INITIAL_BALANCE

\* slippage = abs(current_price - signal['price']) / signal['price'];
\* slippage > CONFIG['MAX_SLIPPAGE']
SlippageTooHigh(current_price, signal) ==
    Abs(current_price - signal.price) * 100 > MAX_SLIPPAGE * signal.price

\* (variant: no margin test)
MarginNeverTooHigh(current_price, signal, account_balance) == FALSE
\* required_margin = size * current_price / LEVERAGE;
\* required_margin > account_balance * 0.8
MarginTooHigh(current_price, signal, account_balance) ==
    signal.size * current_price * 10 > account_balance * 8 * LEVERAGE

\* (variant: > in place of >=)
TooManyOffByOne(oo) == Cardinality(DOMAIN oo) > max_open_orders
\* len(self.open_orders) >= CONFIG['MAX_OPEN_ORDERS']
TooManyOpenOrders(oo) == Cardinality(DOMAIN oo) >= max_open_orders

\* (variant: the entry is not written)
InsertSkipped(oo, key, entry) == oo
\* self.open_orders[order_id] = {...}
InsertOrder(oo, key, entry) ==
    [k \in DOMAIN oo \cup {key} |-> IF k = key THEN entry ELSE oo[k]]

\* (variant: the entry is not removed)
DeleteSkipped(oo, key) == oo
\* if order_id in self.open_orders: del self.open_orders[order_id]
DeleteOrder(oo, key) == [k \in DOMAIN oo \ {key} |-> oo[k]]

\* (variant: the age of the snapshot is not tested)
LoadWithoutAgeTest(file, now) ==
    IF file.state # "ok" THEN NoFile ELSE file
\* load_recovery_state: the state read from the file, or None (NoFile here)
\* for a missing, an unreadable or a stale file
load_recovery_state(file, now) ==
    IF file.state # "ok" THEN NoFile
    ELSE IF now - file.timestamp > RECOVERY_MAX_AGE THEN NoFile
    ELSE file


\* ------------------------------------------------------- initial state
IdleSignal == [symbol |-> "BTCUSDT", type |-> "MOMENTUM", price |-> 100, size |-> 1]

\* the locals of one execute_order call and what the call has done so far
NewCall(signal) ==
    [signal |-> signal,
     price |-> NoPrice,       \* current_price of _pre_execution_check
     balance |-> 0,           \* account_balance of _pre_execution_check
     n_open |-> 0,            \* len(self.open_orders) as the check read it
     precheck |-> "none",     \* first reason for which the check failed
     main |-> "none",         \* "none", "ok" or "failed": the main order
     order_id |-> 0,          \* main_order['orderId']
     sl |-> "none",           \* "none", "ok" or "failed": the stop-loss order
     tp |-> "none",           \* "none", "ok" or "failed": the take-profit order
     inserted |-> FALSE,      \* the call wrote its open_orders entry
     started |-> FALSE,       \* the call started the monitor thread
     raised |-> FALSE,        \* the except clause of execute_order ran
     result |-> "pending"]    \* "pending", "True", "False" or "None"

\* a _monitor_order thread: its position, the time it has spent in the
\* polling loop, the way it ended, the signal it was started with, the
\* time.time() it read for its record, and what it has done so far: read a
\* FILLED status, appended records, sent the cancel request
IdleMonitor ==
    [pc |-> "idle", elapsed |-> 0, outcome |-> "none", signal |-> IdleSignal,
     ts |-> 0, saw_filled |-> FALSE, records |-> 0, cancel_sent |-> FALSE,
     notified |-> FALSE]

\* no snapshot has been taken in this run
NoRun ==
    [saved |-> FALSE, open_orders |-> [k \in {} |-> OldEntry(0)],
     trade_history |-> <<>>]

\* the locals of main at the first pass of its loop, for n configured
\* symbols: daily_trade_count, whether the date has changed since
\* last_trade_day was set, the time since last_save_time, the symbol the for
\* loop is at, and what the pass has done so far
LoopStart(n) ==
    [pc |-> "top",
     n_symbols |-> n,            \* len(TRADE_SYMBOLS)
     daily_trade_count |-> 0,
     new_day |-> FALSE,          \* current_day != last_trade_day
     since_save |-> 0,           \* time.time() - last_save_time, in minutes
     symbol |-> 0,               \* index of the for loop
     due |-> FALSE,              \* the save was due when the pass began
     saved |-> FALSE,            \* the pass called save_recovery_state
     interrupted |-> FALSE,      \* KeyboardInterrupt was delivered
     handler_saved |-> FALSE]    \* an except clause called save_recovery_state

\* the scheduling loop of main before it is entered
NotLooping == [LoopStart(1) EXCEPT !.pc = "not_started"]

\* the threads that issue exchange calls through the one client: the loop of
\* main, an order monitor and the system_monitor thread
Requesters == {"main", "monitor", "system_monitor"}

\* a thread outside safe_request; wake is the time its time.sleep ends
OutsideGate == [pc |-> "outside", wake |-> 0]

\* the client after __init__ (last_call = time.time(), here time 0), and no
\* thread inside safe_request; begun, prev_begin and last_begin record when
\* the last two calls of func began
IdleGate ==
    [now |-> 0,
     last_call |-> 0,
     thread |-> [t \in Requesters |-> OutsideGate],
     begun |-> 0,
     prev_begin |-> 0,
     last_begin |-> 0]

\* no function of the strategy layer is being evaluated
NoEval == [fn |-> "none"]

\* main is about to load recovery.json; the OrderManager is newly built
InitFor(files, types, ceilings) ==
    /\ main_pc = "startup"
    /\ recovery_file \in files
    /\ open_orders = [k \in {} |-> OldEntry(0)]
    /\ trade_history = <<>>
    /\ position_lock = Free
    /\ pc = [t \in Callers |-> "idle"]
    /\ call = [t \in Callers |-> NewCall(IdleSignal)]
    /\ next_order_id = 1
    /\ exch_status = [o \in OrderIds |-> "NONE"]
    /\ mon = [o \in OrderIds |-> IdleMonitor]
    /\ trading_type \in types
    /\ clock = StartupTime
    /\ previous_run = NoRun
    /\ max_open_orders \in ceilings
    /\ gate = IdleGate
    /\ eval = NoEval
    /\ main_loop = NotLooping

\* the same with the configured limit of open orders
InitWith(files, types) == InitFor(files, types, {MAX_OPEN_ORDERS})

\* a start on the futures API, with no recovery.json or with one that is
\* loaded (one that is too old starts the program as a missing one does)
Init ==
    InitWith({f \in RecoveryFiles :
                f = NoFile \/ load_recovery_state(f, StartupTime).state = "ok"},
             {"futures"})

\* ------------------------------------------------------------- startup
\* main: recovery_state = load_recovery_state(); order_manager = OrderManager();
\* if recovery_state: recover_system_state(order_manager, recovery_state)
StartupRecover ==
    /\ main_pc = "startup"
    /\ LET state == load_recovery_state(recovery_file, StartupTime) IN
         /\ state.state = "ok"
         /\ trade_history' = state.trade_history
         /\ open_orders' = state.open_orders
    /\ main_pc' = "running"
    /\ UNCHANGED <<trading_type, max_open_orders, gate, eval, clock,
                   previous_run, main_loop, recovery_file, position_lock, pc,
                   call, next_order_id, exch_status, mon>>

StartupFresh ==
    /\ main_pc = "startup"
    /\ load_recovery_state(recovery_file, StartupTime).state # "ok"
    /\ main_pc' = "running"
    /\ UNCHANGED <<trading_type, max_open_orders, gate, eval, clock,
                   previous_run, main_loop, recovery_file, open_orders,
                   trade_history, position_lock, pc, call, next_order_id,
                   exch_status, mon>>

\* ------------------------------------------------------- execute_order
\* system_guard: the wrapped function runs unless memory or the thread
\* count is over its limit
MEMORY_LIMIT == 80
THREAD_LIMIT == 15
MemoryReadings == {50, 90}

\* threading.active_count(): system_monitor, the callers and the monitors
\* that are running
LiveMonitors == {o \in OrderIds : mon[o].pc \notin {"idle", "done"}}
active_count == 1 + Cardinality(Callers) + Cardinality(LiveMonitors)

system_guard(memory_percent, threads) ==
    ~(memory_percent > MEMORY_LIMIT) /\ ~(threads > THREAD_LIMIT)

\* (variant: a lock that does not exclude)
LockAlwaysAvailable(lock) == TRUE
\* with self.position_lock: the lock is taken only when nobody holds it
LockAvailable(lock) == lock = Free

\* (variant: an exit path that keeps the lock)
LockKept(lock, t) == lock
\* leaving the with block, by return or by exception
ReleaseLock(lock, t) == Free

\* (variant: the verdict of the check is not acted upon)
PreCheckIgnored(passed) == TRUE
\* if not self._pre_execution_check(signal): return False
PreCheckAllows(passed) == passed

\* (variant: a missing main order is not acted upon)
MainOrderIgnored(placed) == TRUE
\* if not main_order: return False
MainOrderAllows(placed) == placed

\* (variant: a failed risk order ends the call)
RiskFailureAborts(sl_ok, tp_ok) == sl_ok /\ tp_ok
\* _place_risk_orders catches what its requests raise: execute_order goes on
\* whatever became of the two orders
RiskOrdersAllow(sl_ok, tp_ok) == TRUE

\* the call goes on to its next statement, still holding the lock
Continue(t, c, next) ==
    /\ pc' = [pc EXCEPT ![t] = next]
    /\ call' = [call EXCEPT ![t] = c]
    /\ UNCHANGED position_lock

\* the call returns res from inside the with block; its locals are gone.
\* What a call of the main thread did stays on record; of a call from
\* another thread, the result and whether the except clause ran
Return(t, c, res) ==
    /\ pc' = [pc EXCEPT ![t] = "returned"]
    /\ call' = [call EXCEPT ![t] =
                  IF t = MainThread
                  THEN [c EXCEPT !.result = res, !.signal = IdleSignal,
                                 !.balance = 0, !.n_open = 0, !.order_id = 0]
                  ELSE [NewCall(IdleSignal) EXCEPT !.result = res,
                                                   !.raised = c.raised]]
    /\ position_lock' = ReleaseLock(position_lock, t)

Call(t) ==
    /\ main_pc = "running"
    /\ pc[t] \in {"idle", "returned"}
    /\ \E memory_percent \in MemoryReadings :
         IF system_guard(memory_percent, active_count)
         THEN /\ pc' = [pc EXCEPT ![t] = "acquire"]
              /\ \E signal \in Signals :
                   call' = [call EXCEPT ![t] = NewCall(signal)]
         ELSE /\ pc' = [pc EXCEPT ![t] = "returned"]
              /\ call' = [call EXCEPT ![t] =
                            [NewCall(IdleSignal) EXCEPT !.result = "None"]]
    /\ UNCHANGED <<trading_type, max_open_orders, gate, eval, clock,
                   previous_run, main_loop, main_pc, recovery_file,
                   open_orders, trade_history, position_lock, next_order_id,
                   exch_status, mon>>

Acquire(t) ==
    /\ pc[t] = "acquire"
    /\ LockAvailable(position_lock)
    /\ position_lock' = t
    /\ pc' = [pc EXCEPT ![t] = "pre_check"]
    /\ UNCHANGED <<trading_type, max_open_orders, gate, eval, clock,
                   previous_run, main_loop, main_pc, recovery_file,
                   open_orders, trade_history, call, next_order_id,
                   exch_status, mon>>

\* _pre_execution_check: the verdict and the values it read. The price comes
\* first, then the balance, then the number of open orders; the first test
\* that fails ends the check.
PreCheckReason(current_price, signal, account_balance, oo) ==
    IF current_price = NoPrice THEN "no_price"
    ELSE IF SlippageTooHigh(current_price, signal) THEN "slippage"
    ELSE IF MarginTooHigh(current_price, signal, account_balance) THEN "margin"
    ELSE IF TooManyOpenOrders(oo) THEN "too_many"
    ELSE "none"

\* what get_current_price and _get_account_balance can return, over all the
\* answers of the exchange
PriceOutcomes ==
    { get_current_price(resps, backup) :
        resps \in [1..PRICE_RETRIES -> PriceResponses],
        backup \in PriceResponses }
BalanceOutcomes == { get_account_balance(resp) : resp \in BalanceResponses }

\* the balance is read only after the price passed its two tests
BalancesRead(current_price, signal) ==
    IF current_price = NoPrice \/ SlippageTooHigh(current_price, signal)
    THEN {0}
    ELSE BalanceOutcomes

PreExecutionCheck(t) ==
    /\ pc[t] = "pre_check"
    /\ \E current_price \in PriceOutcomes :
       \E account_balance \in BalancesRead(current_price, call[t].signal) :
         LET reason == PreCheckReason(current_price, call[t].signal,
                                      account_balance, open_orders)
             c == [call[t] EXCEPT
                     !.price = current_price,
                     !.balance = IF reason \in {"no_price", "slippage"}
                                 THEN 0 ELSE account_balance,
                     !.n_open = IF reason \in {"none", "too_many"}
                                THEN Cardinality(DOMAIN open_orders) ELSE 0,
                     !.precheck = reason]
         IN IF PreCheckAllows(reason = "none")
            THEN Continue(t, c, "place_main")
            ELSE Return(t, c, "False")
    /\ UNCHANGED <<trading_type, max_open_orders, gate, eval, clock,
                   previous_run, main_loop, main_pc, recovery_file,
                   open_orders, trade_history, next_order_id, exch_status,
                   mon>>

\* main_order = self._place_main_order(signal): the order the exchange
\* accepted, or None when the request raised
PlaceMainOrder(t) ==
    /\ pc[t] = "place_main"
    /\ \E accepted \in BOOLEAN :
         LET placed == accepted /\ next_order_id <= MaxOrders
             c == IF placed
                  THEN [call[t] EXCEPT !.main = "ok", !.order_id = next_order_id]
                  ELSE [call[t] EXCEPT !.main = "failed"]
         IN /\ IF placed
               THEN /\ next_order_id' = next_order_id + 1
                    /\ exch_status' = [exch_status EXCEPT ![next_order_id] = "NEW"]
               ELSE UNCHANGED <<next_order_id, exch_status>>
            /\ IF MainOrderAllows(placed)
               THEN Continue(t, c, "place_risk")
               ELSE Return(t, c, "False")
    /\ UNCHANGED <<trading_type, max_open_orders, gate, eval, clock,
                   previous_run, main_loop, main_pc, recovery_file,
                   open_orders, trade_history, mon>>

\* (variant: the take-profit request has a try block of its own)
TakeProfitInOwnTry(sl_ok, tp_ok) == IF tp_ok THEN "ok" ELSE "failed"
\* lines 615-634: both requests are in one try block, so the take-profit
\* request is reached only when the stop-loss request returned
TakeProfitInSameTry(sl_ok, tp_ok) ==
    IF ~sl_ok THEN "none" ELSE IF tp_ok THEN "ok" ELSE "failed"

\* self._place_risk_orders(signal, main_order): stop-loss, then take-profit;
\* the first request that raises ends the function, which swallows the error
PlaceRiskOrders(t) ==
    /\ pc[t] = "place_risk"
    /\ \E sl_ok \in BOOLEAN, tp_ok \in BOOLEAN :
         LET c == [call[t] EXCEPT
                     !.sl = IF sl_ok THEN "ok" ELSE "failed",
                     !.tp = TakeProfitInSameTry(sl_ok, tp_ok)]
         IN IF RiskOrdersAllow(sl_ok, tp_ok)
            THEN Continue(t, c, "record")
            ELSE Return(t, [c EXCEPT !.raised = TRUE], "False")
    /\ UNCHANGED <<trading_type, max_open_orders, gate, eval, clock,
                   previous_run, main_loop, main_pc, recovery_file,
                   open_orders, trade_history, next_order_id, exch_status,
                   mon>>

\* order_id = main_order['orderId']; self.open_orders[order_id] = {...};
\* an answer without orderId raises into the except clause
RecordOrder(t) ==
    /\ pc[t] = "record"
    /\ \/ /\ open_orders' = InsertOrder(open_orders, IntKey(call[t].order_id),
                                [signal |-> call[t].signal,
                                 order |-> call[t].order_id])
          /\ Continue(t, [call[t] EXCEPT !.inserted = TRUE], "start_monitor")
       \/ /\ Return(t, [call[t] EXCEPT !.raised = TRUE], "False")
          /\ UNCHANGED open_orders
    /\ UNCHANGED <<trading_type, max_open_orders, gate, eval, clock,
                   previous_run, main_loop, main_pc, recovery_file,
                   trade_history, next_order_id, exch_status, mon>>

\* monitor_thread = threading.Thread(...); monitor_thread.start(); a thread
\* that cannot be started raises into the except clause
StartMonitor(t) ==
    /\ pc[t] = "start_monitor"
    /\ \/ /\ mon' = [mon EXCEPT ![call[t].order_id] =
                       [IdleMonitor EXCEPT !.pc = "loop",
                                           !.signal = call[t].signal]]
          /\ Continue(t, [call[t] EXCEPT !.started = TRUE], "return_true")
       \/ /\ Return(t, [call[t] EXCEPT !.raised = TRUE], "False")
          /\ UNCHANGED mon
    /\ UNCHANGED <<trading_type, max_open_orders, gate, eval, clock,
                   previous_run, main_loop, main_pc, recovery_file,
                   open_orders, trade_history, next_order_id, exch_status>>

\* return True
ReturnTrue(t) ==
    /\ pc[t] = "return_true"
    /\ Return(t, call[t], "True")
    /\ UNCHANGED <<trading_type, max_open_orders, gate, eval, clock,
                   previous_run, main_loop, main_pc, recovery_file,
                   open_orders, trade_history, next_order_id, exch_status,
                   mon>>


\* ------------------------------------------------------ _monitor_order
\* while time.time() - start_time < 120: the loop is left once the window
\* has passed
TimedOut(elapsed) == ~(elapsed < MaxPolls)

\* exch_status is the status of an order as the program last learnt it; an
\* order that was NEW then may since have been filled or canceled by the
\* exchange, FILLED and CANCELED are final
NextStatuses(status) ==
    IF status = "NEW" THEN {"NEW", "FILLED", "CANCELED"} ELSE {status}

\* (variant: the record carries the profit of the trade)
TradeRecordWithPnl(signal, timestamp) ==
    [symbol |-> signal.symbol, side |-> "BUY", size |-> signal.size,
     timestamp |-> timestamp, signal_type |-> signal.type, pnl |-> 1]
\* the record appended for a filled order
TradeRecord(signal, timestamp) ==
    [symbol |-> signal.symbol, side |-> "BUY", size |-> signal.size,
     timestamp |-> timestamp, signal_type |-> signal.type]

\* what a status request can bring: an exception, or the answer of the
\* endpoint the trading type selects. The answer of futures_get_order has
\* the executedQty and avgPrice that the FILLED branch reads ("complete");
\* the answer of the spot get_order has no avgPrice ("incomplete").
StatusAnswers(type) ==
    IF type = "futures" THEN {"raises", "complete"} ELSE {"raises", "incomplete"}

MonitorAt(o, next, elapsed) ==
    mon' = [mon EXCEPT ![o].pc = next, ![o].elapsed = elapsed]

\* the entry is deleted and the monitor goes on to the send_telegram that
\* reports the outcome; the message takes the symbol and the order id only
MonitorNotifies(o, outcome) ==
    mon' = [mon EXCEPT ![o].pc = IF outcome = "filled" THEN "notify_filled"
                                 ELSE "notify_canceled",
                       ![o].elapsed = 0,
                       ![o].signal = IdleSignal, ![o].ts = 0]

\* one pass of the loop: the status request, then the FILLED branch up to
\* the dict it builds (the fields of the answer and time.time()), the
\* CANCELED branch, or time.sleep(5). A request that raises, or a FILLED answer
\* whose fields cannot be read, ends in the except clause and its
\* time.sleep(5).
MonitorPoll(o) ==
    /\ mon[o].pc = "loop"
    /\ ~TimedOut(mon[o].elapsed)
    /\ \E answer \in StatusAnswers(trading_type) :
       \E status \in IF answer = "raises" THEN {exch_status[o]}
                     ELSE NextStatuses(exch_status[o]) :
         IF answer = "raises"
         THEN /\ MonitorAt(o, "loop", mon[o].elapsed + 1)
              /\ UNCHANGED <<open_orders, exch_status>>
         ELSE /\ exch_status' = [exch_status EXCEPT ![o] = status]
              /\ IF status = "FILLED" /\ answer = "complete"
                 THEN /\ mon' = [mon EXCEPT ![o].pc = "append",
                                            ![o].elapsed = 0,
                                            ![o].ts = clock,
                                            ![o].saw_filled = TRUE]
                      /\ UNCHANGED open_orders
                 ELSE IF status = "FILLED"
                 THEN /\ mon' = [mon EXCEPT ![o].elapsed = mon[o].elapsed + 1,
                                            ![o].saw_filled = TRUE]
                      /\ UNCHANGED open_orders
                 ELSE IF status = "CANCELED"
                 THEN /\ open_orders' = DeleteOrder(open_orders, IntKey(o))
                      /\ MonitorNotifies(o, "canceled")
                 ELSE /\ MonitorAt(o, "loop", mon[o].elapsed + 1)
                      /\ UNCHANGED open_orders
    /\ UNCHANGED <<trading_type, max_open_orders, gate, eval, clock,
                   previous_run, main_loop, main_pc, recovery_file,
                   trade_history, position_lock, pc, call, next_order_id>>

\* (variant: the record is not appended)
AppendSkipped(history, record) == history
\* self.trade_history.append({...})
AppendTrade(history, record) == Append(history, record)

\* FILLED: self.trade_history.append of the dict built from the answer
MonitorAppend(o) ==
    /\ mon[o].pc = "append"
    /\ trade_history' =
         AppendTrade(trade_history, TradeRecord(mon[o].signal, mon[o].ts))
    /\ mon' = [mon EXCEPT ![o].pc = "del_filled",
                          ![o].records = mon[o].records + 1]
    /\ UNCHANGED <<trading_type, max_open_orders, gate, eval, clock,
                   previous_run, main_loop, main_pc, recovery_file,
                   open_orders, position_lock, pc, call, next_order_id,
                   exch_status>>

\* FILLED: del self.open_orders[order_id]
MonitorDelFilled(o) ==
    /\ mon[o].pc = "del_filled"
    /\ open_orders' = DeleteOrder(open_orders, IntKey(o))
    /\ MonitorNotifies(o, "filled")
    /\ UNCHANGED <<trading_type, max_open_orders, gate, eval, clock,
                   previous_run, main_loop, main_pc, recovery_file,
                   trade_history, position_lock, pc, call, next_order_id,
                   exch_status>>

\* lines 692-693 and 698-699: send_telegram with the symbol and the order
\* id, then return; the thread ends
MonitorNotify(o) ==
    /\ mon[o].pc \in {"notify_filled", "notify_canceled"}
    /\ mon' = [mon EXCEPT ![o].pc = "done",
                          ![o].outcome = IF mon[o].pc = "notify_filled"
                                         THEN "filled" ELSE "canceled",
                          ![o].notified = TRUE]
    /\ UNCHANGED <<trading_type, max_open_orders, gate, eval, clock,
                   previous_run, main_loop, main_pc, recovery_file,
                   open_orders, trade_history, position_lock, pc, call,
                   next_order_id, exch_status>>

\* (variant: the entry stays when the order could not be canceled)
RemoveIfCanceled(oo, key, canceled) ==
    IF canceled THEN DeleteOrder(oo, key) ELSE oo
\* the cancel request sits in its own try block: whatever it raised,
\* `if order_id in self.open_orders: del self.open_orders[order_id]` follows
RemoveAfterTimeout(oo, key, canceled) == DeleteOrder(oo, key)

\* the loop test finds the window over: the cancel request, which cancels an
\* order that is still open and raises for one that is not (or for any other
\* reason), then del self.open_orders[order_id]; return False. The
\* send_telegram of line 721 follows the cancel request inside the same try
\* block: it runs only when the request did not raise
MonitorTimeout(o) ==
    /\ mon[o].pc = "loop"
    /\ TimedOut(mon[o].elapsed)
    /\ \E status \in NextStatuses(exch_status[o]) :
       \E raises \in IF status = "NEW" THEN BOOLEAN ELSE {TRUE} :
         LET canceled == ~raises /\ status = "NEW" IN
           /\ exch_status' = [exch_status EXCEPT ![o] =
                                IF canceled THEN "CANCELED" ELSE status]
           /\ open_orders' = RemoveAfterTimeout(open_orders, IntKey(o), canceled)
           /\ mon' = [mon EXCEPT ![o].pc = "done",
                                 ![o].outcome = "timed_out",
                                 ![o].signal = IdleSignal, ![o].ts = 0,
                                 ![o].cancel_sent = TRUE,
                                 ![o].notified = canceled]
    /\ UNCHANGED <<trading_type, max_open_orders, gate, eval, clock,
                   previous_run, main_loop, main_pc, recovery_file,
                   trade_history, position_lock, pc, call, next_order_id>>

MonitorStep(o) ==
    \/ MonitorPoll(o)
    \/ MonitorAppend(o)
    \/ MonitorDelFilled(o)
    \/ MonitorNotify(o)
    \/ MonitorTimeout(o)

\* ------------------------------------------------------- specification
CallerStep(t) ==
    \/ Call(t)
    \/ Acquire(t)
    \/ PreExecutionCheck(t)
    \/ PlaceMainOrder(t)
    \/ PlaceRiskOrders(t)
    \/ RecordOrder(t)
    \/ StartMonitor(t)
    \/ ReturnTrue(t)

\* the program as main runs it: the scheduling loop is the only caller of
\* execute_order
Next ==
    \/ StartupRecover
    \/ StartupFresh
    \/ CallerStep(MainThread)
    \/ \E o \in OrderIds : MonitorStep(o)

Spec == Init /\ [][Next]_vars

\* the threads of the monitors are scheduled and their exchange calls return
FairSpec == Spec /\ \A o \in OrderIds : WF_vars(MonitorStep(o))

\* one newly built OrderManager whose execute_order is called from several
\* threads
ConcurrentInit ==
    /\ Init
    /\ recovery_file = NoFile

ConcurrentNext ==
    \/ StartupFresh
    \/ \E t \in Callers : CallerStep(t)
    \/ \E o \in OrderIds : MonitorStep(o)

ConcurrentSpec == ConcurrentInit /\ [][ConcurrentNext]_vars

\* a first start (no recovery.json) on either API
ModeInit == InitWith({NoFile}, TradingTypes)

\* the steps of a run that found no recovery.json
FreshNext ==
    \/ StartupFresh
    \/ CallerStep(MainThread)
    \/ \E o \in OrderIds : MonitorStep(o)

ModeSpec == ModeInit /\ [][FreshNext]_vars

\* a first start with CONFIG['MAX_OPEN_ORDERS'] set to 1
SINGLE_OPEN_ORDER == 1
CeilingSpec ==
    InitFor({NoFile}, {"futures"}, {SINGLE_OPEN_ORDER}) /\ [][FreshNext]_vars

\* time passes
Tick ==
    /\ clock < StartupTime + MaxClock
    /\ clock' = clock + 1
    /\ UNCHANGED <<main_pc, recovery_file, open_orders, trade_history,
                   position_lock, pc, call, next_order_id, exch_status, mon,
                   trading_type, max_open_orders, gate, eval, previous_run,
                   main_loop>>

\* a first start on the futures API, with the clock running
ClockInit == InitWith({NoFile}, {"futures"})

ClockNext ==
    \/ FreshNext
    \/ Tick

ClockSpec == ClockInit /\ [][ClockNext]_vars


\* ------------------------------------------------- save_recovery_state
\* 'trade_history': order_manager.trade_history[-50:]
HISTORY_KEPT == 50

\* history[-HISTORY_KEPT:]
LastTrades(history) ==
    IF Len(history) <= HISTORY_KEPT THEN history
    ELSE SubSeq(history, Len(history) - HISTORY_KEPT + 1, Len(history))

\* json.dump writes the keys of a dict as strings, and json.load returns
\* them as strings: the entry of order id 7 comes back under "7"
JsonKeys(oo) ==
    [k \in {StrKey(j.n) : j \in DOMAIN oo} |->
        oo[CHOOSE j \in DOMAIN oo : j.n = k.n]]

\* the requests that open save_recovery_state (positions or account, open
\* orders); when one raises, the except clause ends the save and the file is
\* not touched
SaveReadExchange ==
    /\ main_pc = "save_read"
    /\ \E raises \in BOOLEAN :
         main_pc' = IF raises THEN "save_done" ELSE "save_open"
    /\ UNCHANGED <<recovery_file, open_orders, trade_history, position_lock,
                   pc, call, next_order_id, exch_status, mon, trading_type,
                   max_open_orders, gate, eval, clock, previous_run,
                   main_loop>>

\* open('recovery.json', 'w'): the file exists and is empty from here on
SaveOpenFile ==
    /\ main_pc = "save_open"
    /\ recovery_file' = Unreadable
    /\ main_pc' = "save_dump"
    /\ UNCHANGED <<open_orders, trade_history, position_lock, pc, call,
                   next_order_id, exch_status, mon, trading_type,
                   max_open_orders, gate, eval, clock, previous_run,
                   main_loop>>

\* json.dump(recovery_data, f): the whole document is written, or the
\* serialization raises after a part of it (open_orders is the live dict of
\* the OrderManager, which a monitor thread can shrink during the iteration)
\* and the except clause ends the save
SaveDump ==
    /\ main_pc = "save_dump"
    /\ \/ /\ recovery_file' = Snapshot(clock, JsonKeys(open_orders),
                                       LastTrades(trade_history))
          /\ previous_run' = [saved |-> TRUE, open_orders |-> open_orders,
                              trade_history |-> trade_history]
       \/ UNCHANGED <<recovery_file, previous_run>>
    /\ main_pc' = "save_done"
    /\ UNCHANGED <<open_orders, trade_history, position_lock, pc, call,
                   next_order_id, exch_status, mon, trading_type,
                   max_open_orders, gate, eval, clock, main_loop>>

\* the process ends, after the save or killed while the file is open, and is
\* started again later: main runs from its first line with a new OrderManager
Restart ==
    /\ main_pc \in {"save_open", "save_dump", "save_done"}
    /\ main_pc' = "startup"
    /\ open_orders' = [k \in {} |-> OldEntry(0)]
    /\ trade_history' = <<>>
    /\ clock' = StartupTime
    /\ UNCHANGED <<recovery_file, position_lock, pc, call, next_order_id,
                   exch_status, mon, trading_type, max_open_orders, gate,
                   eval, previous_run, main_loop>>

\* how long before the next startup the snapshot is taken
SnapshotAges == {0, RECOVERY_MAX_AGE, RECOVERY_MAX_AGE + 1}

\* the keys an OrderManager can hold: ids of this run, and recovered ones
ManagerKeys == {IntKey(o) : o \in OrderIds} \cup {StrKey(MaxOrders + 1)}

\* a trade history of n records
History(n) == [i \in 1..n |-> TradeRecord(IdleSignal, i)]

\* a run whose OrderManager holds some orders and trades is about to call
\* save_recovery_state; recovery.json is what an earlier save left
RecoveryInit ==
    /\ main_pc = "save_read"
    /\ recovery_file \in RecoveryFiles
    /\ \E keys \in SUBSET ManagerKeys :
         /\ Cardinality(keys) <= MAX_OPEN_ORDERS
         /\ open_orders = [k \in keys |-> [signal |-> IdleSignal, order |-> k.n]]
    /\ trade_history \in
         {History(n) : n \in {0, 1, HISTORY_KEPT, HISTORY_KEPT + 1}}
    /\ clock \in {StartupTime - age : age \in SnapshotAges}
    /\ position_lock = Free
    /\ pc = [t \in Callers |-> "idle"]
    /\ call = [t \in Callers |-> NewCall(IdleSignal)]
    /\ next_order_id = 1
    /\ exch_status = [o \in OrderIds |-> "NONE"]
    /\ mon = [o \in OrderIds |-> IdleMonitor]
    /\ trading_type = "futures"
    /\ previous_run = NoRun
    /\ max_open_orders = MAX_OPEN_ORDERS
    /\ gate = IdleGate
    /\ eval = NoEval
    /\ main_loop = NotLooping

RecoveryNext ==
    \/ SaveReadExchange
    \/ SaveOpenFile
    \/ SaveDump
    \/ Restart
    \/ StartupRecover
    \/ StartupFresh

RecoverySpec == RecoveryInit /\ [][RecoveryNext]_vars

\* ------------------------------------------------ the loop of main
\* CONFIG['MAX_DAILY_TRADES']
MAX_DAILY_TRADES == 1
\* CONFIG['RECOVERY_SAVE_INTERVAL'], in minutes
RECOVERY_SAVE_INTERVAL == 5
\* time.sleep(3600), time.sleep(60), time.sleep(300) and time.sleep(60) of
\* main, in minutes
CAP_WAIT == 60
TRADE_PAUSE == 1
CYCLE_SLEEP == 5
ERROR_PAUSE == 1

\* time.time() - last_save_time after d more minutes; only its comparison
\* with RECOVERY_SAVE_INTERVAL is used, so it is kept up to one above it
Later(since, d) ==
    IF since + d > RECOVERY_SAVE_INTERVAL THEN RECOVERY_SAVE_INTERVAL + 1
    ELSE since + d

\* what execute_order returns to main (None comes from system_guard)
ExecuteResults == {"True", "False", "None"}

\* what one pass of the for loop can come to: no klines or no indicators
\* (continue), no signal, the result of execute_order, or an exception
SymbolOutcomes == {"no_data", "no_signal", "raises"} \cup ExecuteResults

\* the loop goes to position next with the locals l; time passing in the
\* step may have changed the date
LoopGoes(l, next, passes) ==
    \E midnight \in IF passes THEN BOOLEAN ELSE {FALSE} :
        main_loop' = [l EXCEPT !.pc = next,
                               !.new_day = l.new_day \/ midnight]

\* lines 1135-1146: the date test, then the daily limit
LoopTop ==
    /\ main_loop.pc = "top"
    /\ LET count == IF main_loop.new_day THEN 0
                    ELSE main_loop.daily_trade_count
           l == [main_loop EXCEPT
                   !.daily_trade_count = count,
                   !.new_day = FALSE,
                   !.symbol = IF count >= MAX_DAILY_TRADES THEN 0 ELSE 1,
                   !.due = main_loop.since_save > RECOVERY_SAVE_INTERVAL,
                   !.saved = FALSE,
                   !.handler_saved = FALSE]
       IN IF count >= MAX_DAILY_TRADES
          THEN LoopGoes(l, "cap_wait", FALSE)
          ELSE LoopGoes(l, "symbols", FALSE)
    /\ UNCHANGED <<main_pc, recovery_file, open_orders, trade_history,
                   position_lock, pc, call, next_order_id, exch_status, mon,
                   trading_type, max_open_orders, gate, eval, clock,
                   previous_run>>

\* time.sleep(3600); continue
CapWait ==
    /\ main_loop.pc = "cap_wait"
    /\ LoopGoes([main_loop EXCEPT
                   !.since_save = Later(main_loop.since_save, CAP_WAIT)],
                "top", TRUE)
    /\ UNCHANGED <<main_pc, recovery_file, open_orders, trade_history,
                   position_lock, pc, call, next_order_id, exch_status, mon,
                   trading_type, max_open_orders, gate, eval, clock,
                   previous_run>>

\* where an exception raised inside the try block of the loop goes: to the
\* `except Exception` clause of line 1183 (without the clause, out of main)
NoExceptClause == "exited"
ExceptClause == "handler_notify"

\* lines 1149-1168, for one symbol: klines, indicators, balance, signal,
\* execute_order; a True result counts and is followed by time.sleep(60)
SymbolStep ==
    /\ main_loop.pc = "symbols"
    /\ \E outcome \in SymbolOutcomes :
         LET last == main_loop.symbol = main_loop.n_symbols
             next == IF last THEN "save_check" ELSE "symbols"
             l == [main_loop EXCEPT
                     !.symbol = IF last THEN 0 ELSE main_loop.symbol + 1]
         IN IF outcome = "raises"
            THEN LoopGoes([main_loop EXCEPT !.symbol = 0],
                          ExceptClause, FALSE)
            ELSE IF outcome = "True"
            THEN LoopGoes([l EXCEPT
                             !.daily_trade_count = main_loop.daily_trade_count + 1,
                             !.since_save = Later(main_loop.since_save,
                                                  TRADE_PAUSE)],
                          next, TRUE)
            ELSE LoopGoes(l, next, FALSE)
    /\ UNCHANGED <<main_pc, recovery_file, open_orders, trade_history,
                   position_lock, pc, call, next_order_id, exch_status, mon,
                   trading_type, max_open_orders, gate, eval, clock,
                   previous_run>>

\* the loop calls save_recovery_state(order_manager) and waits at position
\* next for it to return
LoopSaves(next) ==
    /\ main_pc' = "save_read"
    /\ main_loop' = [main_loop EXCEPT !.pc = next, !.saved = TRUE,
                        !.handler_saved =
                            main_loop.handler_saved \/ next # "periodic_save"]

\* if time.time() - last_save_time > CONFIG['RECOVERY_SAVE_INTERVAL']
SaveCheck ==
    /\ main_loop.pc = "save_check"
    /\ main_pc = "running"
    /\ IF main_loop.since_save > RECOVERY_SAVE_INTERVAL
       THEN LoopSaves("periodic_save")
       ELSE /\ LoopGoes(main_loop, "cycle_sleep", FALSE)
            /\ UNCHANGED main_pc
    /\ UNCHANGED <<recovery_file, open_orders, trade_history, position_lock,
                   pc, call, next_order_id, exch_status, mon, trading_type,
                   max_open_orders, gate, eval, clock, previous_run>>

\* save_recovery_state has returned: last_save_time = time.time()
AfterPeriodicSave ==
    /\ main_loop.pc = "periodic_save"
    /\ main_pc = "save_done"
    /\ main_pc' = "running"
    /\ LoopGoes([main_loop EXCEPT !.since_save = 0], "cycle_sleep", FALSE)
    /\ UNCHANGED <<recovery_file, open_orders, trade_history, position_lock,
                   pc, call, next_order_id, exch_status, mon, trading_type,
                   max_open_orders, gate, eval, clock, previous_run>>

\* time.sleep(300), the end of the pass
CycleSleep ==
    /\ main_loop.pc = "cycle_sleep"
    /\ LoopGoes([main_loop EXCEPT
                   !.since_save = Later(main_loop.since_save, CYCLE_SLEEP)],
                "top", TRUE)
    /\ UNCHANGED <<main_pc, recovery_file, open_orders, trade_history,
                   position_lock, pc, call, next_order_id, exch_status, mon,
                   trading_type, max_open_orders, gate, eval, clock,
                   previous_run>>

\* except Exception: logger.error, send_telegram, then the call of
\* save_recovery_state
HandlerNotify ==
    /\ main_loop.pc = "handler_notify"
    /\ main_pc = "running"
    /\ LoopSaves("handler_save")
    /\ UNCHANGED <<recovery_file, open_orders, trade_history, position_lock,
                   pc, call, next_order_id, exch_status, mon, trading_type,
                   max_open_orders, gate, eval, clock, previous_run>>

AfterHandlerSave ==
    /\ main_loop.pc = "handler_save"
    /\ main_pc = "save_done"
    /\ main_pc' = "running"
    /\ LoopGoes(main_loop, "handler_sleep", FALSE)
    /\ UNCHANGED <<recovery_file, open_orders, trade_history, position_lock,
                   pc, call, next_order_id, exch_status, mon, trading_type,
                   max_open_orders, gate, eval, clock, previous_run>>

\* time.sleep(60) of the except clause, the end of the pass
HandlerSleep ==
    /\ main_loop.pc = "handler_sleep"
    /\ LoopGoes([main_loop EXCEPT
                   !.since_save = Later(main_loop.since_save, ERROR_PAUSE)],
                "top", TRUE)
    /\ UNCHANGED <<main_pc, recovery_file, open_orders, trade_history,
                   position_lock, pc, call, next_order_id, exch_status, mon,
                   trading_type, max_open_orders, gate, eval, clock,
                   previous_run>>

\* the positions inside the try block of the loop, and those inside its
\* `except Exception` clause
TryPositions ==
    {"top", "cap_wait", "symbols", "save_check", "periodic_save",
     "cycle_sleep"}
HandlerPositions == {"handler_notify", "handler_save", "handler_sleep"}

\* KeyboardInterrupt is delivered to the main thread. Raised inside the try
\* block it reaches `except KeyboardInterrupt`; raised inside the
\* `except Exception` clause it is caught by nothing and main ends. No
\* `except Exception` on the way (save_recovery_state has one) catches it, so
\* a save that is under way is left where it is.
Interrupt ==
    /\ ~main_loop.interrupted
    /\ main_loop.pc \in TryPositions \cup HandlerPositions
    /\ IF main_loop.pc \in TryPositions
       THEN /\ main_pc' = "running"
            /\ main_loop' = [main_loop EXCEPT !.pc = "interrupt_handler",
                                              !.interrupted = TRUE]
       ELSE /\ main_pc' = "exited"
            /\ main_loop' = [main_loop EXCEPT !.pc = "exited",
                                              !.interrupted = TRUE]
    /\ UNCHANGED <<recovery_file, open_orders, trade_history, position_lock,
                   pc, call, next_order_id, exch_status, mon, trading_type,
                   max_open_orders, gate, eval, clock, previous_run>>

\* except KeyboardInterrupt: logger.info, then the call of
\* save_recovery_state
InterruptSave ==
    /\ main_loop.pc = "interrupt_handler"
    /\ main_pc = "running"
    /\ LoopSaves("interrupt_save")
    /\ UNCHANGED <<recovery_file, open_orders, trade_history, position_lock,
                   pc, call, next_order_id, exch_status, mon, trading_type,
                   max_open_orders, gate, eval, clock, previous_run>>

\* send_telegram; break: main returns
AfterInterruptSave ==
    /\ main_loop.pc = "interrupt_save"
    /\ main_pc = "save_done"
    /\ main_pc' = "exited"
    /\ main_loop' = [main_loop EXCEPT !.pc = "exited"]
    /\ UNCHANGED <<recovery_file, open_orders, trade_history, position_lock,
                   pc, call, next_order_id, exch_status, mon, trading_type,
                   max_open_orders, gate, eval, clock, previous_run>>

\* main has started (no recovery.json) and enters its loop, with one symbol
\* or several configured
MainLoopInit ==
    /\ main_pc = "running"
    /\ recovery_file = NoFile
    /\ open_orders = [k \in {} |-> OldEntry(0)]
    /\ trade_history = <<>>
    /\ position_lock = Free
    /\ pc = [t \in Callers |-> "idle"]
    /\ call = [t \in Callers |-> NewCall(IdleSignal)]
    /\ next_order_id = 1
    /\ exch_status = [o \in OrderIds |-> "NONE"]
    /\ mon = [o \in OrderIds |-> IdleMonitor]
    /\ trading_type = "futures"
    /\ clock = StartupTime
    /\ previous_run = NoRun
    /\ max_open_orders = MAX_OPEN_ORDERS
    /\ gate = IdleGate
    /\ eval = NoEval
    /\ main_loop \in {LoopStart(n) : n \in 1..MaxSymbols}

MainLoopNext ==
    \/ LoopTop
    \/ CapWait
    \/ SymbolStep
    \/ SaveCheck
    \/ AfterPeriodicSave
    \/ CycleSleep
    \/ HandlerNotify
    \/ AfterHandlerSave
    \/ HandlerSleep
    \/ Interrupt
    \/ InterruptSave
    \/ AfterInterruptSave
    \/ SaveReadExchange
    \/ SaveOpenFile
    \/ SaveDump

MainLoopSpec == MainLoopInit /\ [][MainLoopNext]_vars

\* the steps of the main thread itself; nothing but KeyboardInterrupt stops
\* the thread from taking its next step
MainThreadStep ==
    \/ LoopTop
    \/ CapWait
    \/ SymbolStep
    \/ SaveCheck
    \/ AfterPeriodicSave
    \/ CycleSleep
    \/ HandlerNotify
    \/ AfterHandlerSave
    \/ HandlerSleep
    \/ InterruptSave
    \/ AfterInterruptSave
    \/ SaveReadExchange
    \/ SaveOpenFile
    \/ SaveDump

MainLoopFairSpec == MainLoopSpec /\ WF_vars(MainThreadStep)

\* ------------------------------------- EnhancedBinanceClient.safe_request
\* the 0.1 s of safe_request, in units of 0.05 s
MIN_SPACING == 2

\* the order engine at rest: main runs, nothing is open, no call is under way
AtRest ==
    /\ main_pc = "running"
    /\ recovery_file = NoFile
    /\ open_orders = [k \in {} |-> OldEntry(0)]
    /\ trade_history = <<>>
    /\ position_lock = Free
    /\ pc = [t \in Callers |-> "idle"]
    /\ call = [t \in Callers |-> NewCall(IdleSignal)]
    /\ next_order_id = 1
    /\ exch_status = [o \in OrderIds |-> "NONE"]
    /\ mon = [o \in OrderIds |-> IdleMonitor]
    /\ trading_type = "futures"
    /\ max_open_orders = MAX_OPEN_ORDERS
    /\ clock = StartupTime
    /\ previous_run = NoRun
    /\ main_loop = NotLooping

\* the engine at rest, the client newly built, and one of the given calls of
\* a function about to be evaluated
Evaluating(calls) == AtRest /\ gate = IdleGate /\ eval \in calls

EngineUnchanged ==
    UNCHANGED <<main_pc, recovery_file, open_orders, trade_history,
                position_lock, pc, call, next_order_id, exch_status, mon,
                trading_type, max_open_orders, clock, previous_run,
                main_loop>>

\* lines 213-215: elapsed = time.time() - self.last_call; a thread that finds
\* elapsed < 0.1 sleeps for the rest, any other goes on to the call
EnterGate(t) ==
    /\ gate.thread[t].pc = "outside"
    /\ LET elapsed == gate.now - gate.last_call
       IN gate' = [gate EXCEPT !.thread[t] =
                     IF elapsed < MIN_SPACING
                     THEN [pc |-> "sleeping",
                           wake |-> gate.now + (MIN_SPACING - elapsed)]
                     ELSE [pc |-> "ready", wake |-> 0]]
    /\ EngineUnchanged /\ UNCHANGED eval

\* time.sleep(0.1 - elapsed) returns
WakeUp(t) ==
    /\ gate.thread[t].pc = "sleeping"
    /\ gate.now >= gate.thread[t].wake
    /\ gate' = [gate EXCEPT !.thread[t] = [pc |-> "ready", wake |-> 0]]
    /\ EngineUnchanged /\ UNCHANGED eval

\* line 217: result = func(*args, **kwargs) begins
BeginCall(t) ==
    /\ gate.thread[t].pc = "ready"
    /\ gate' = [gate EXCEPT !.thread[t] = [pc |-> "calling", wake |-> 0],
                            !.begun = IF gate.begun < 2 THEN gate.begun + 1
                                      ELSE 2,
                            !.prev_begin = gate.last_begin,
                            !.last_begin = gate.now]
    /\ EngineUnchanged /\ UNCHANGED eval

\* lines 218-227: func returned and self.last_call = time.time(), or func
\* raised and the except clauses re-raise with last_call as it was
EndCall(t) ==
    /\ gate.thread[t].pc = "calling"
    /\ \E succeeded \in BOOLEAN :
         gate' = [gate EXCEPT !.thread[t] = OutsideGate,
                              !.last_call = IF succeeded THEN gate.now
                                            ELSE gate.last_call]
    /\ EngineUnchanged /\ UNCHANGED eval

\* 0.05 s pass
GateTick ==
    /\ gate.now < MaxTime
    /\ gate' = [gate EXCEPT !.now = gate.now + 1]
    /\ EngineUnchanged /\ UNCHANGED eval

ThrottleNext ==
    \/ \E t \in Requesters : EnterGate(t)
    \/ \E t \in Requesters : WakeUp(t)
    \/ \E t \in Requesters : BeginCall(t)
    \/ \E t \in Requesters : EndCall(t)
    \/ GateTick

ThrottleSpec == Evaluating({NoEval}) /\ [][ThrottleNext]_vars

\* ------------------------------------- retries of an exchange operation
\* the price lookup and the submission of the main order send a request
\* through safe_request and handle its failure themselves. One request comes
\* to an answer, a transient failure (a 5xx status, a network error) or a
\* business error (a BinanceAPIException such as insufficient balance);
\* safe_request re-raises both kinds of failure
ExchangeCalls ==
    [fn : {"exchange_call"},
     op : {"price", "main_order"},
     answers : [1..PRICE_RETRIES -> {"ok", "transient", "business"}],
     backup : {"ok", "transient"},
     attempts : {0},
     result : {"pending"}]

\* one request of the operation. get_current_price (286-310) goes round its
\* for loop on any exception and asks for the 1m kline after the last one;
\* _place_main_order (586-611) sends one request and returns None on any
\* exception
ExchangeAttempt ==
    /\ eval.fn = "exchange_call"
    /\ eval.result = "pending"
    /\ LET i == eval.attempts + 1
           answer == eval.answers[i]
           result ==
               IF answer = "ok" THEN "value"
               ELSE IF eval.op = "main_order" THEN "none"
               ELSE IF i < PRICE_RETRIES THEN "pending"
               ELSE IF eval.backup = "ok" THEN "value"
               ELSE "none"
       IN eval' = [eval EXCEPT !.attempts = i, !.result = result]
    /\ EngineUnchanged /\ UNCHANGED gate

RetrySpec == Evaluating(ExchangeCalls) /\ [][ExchangeAttempt]_vars

\* ------------------------------------------------ _get_account_balance
\* what the balance request returns: an exception, or a list of up to two
\* entries, each an asset with a balance that float() accepts or with one
\* it rejects
BalanceAnswers ==
    LET entries == [asset : {"USDT", "BNB"},
                    balance : {Value(0), Value(60), Raises}]
    IN {[kind |-> "raises", list |-> <<>>]}
       \cup {[kind |-> "list", list |-> l] :
               l \in {<<>>} \cup {<<e>> : e \in entries}
                    \cup {<<e, f>> : e, f \in entries}}

\* the for loop of lines 644-646 and 649-651: the balance of the first USDT
\* entry; Missing when the loop ends without one
RECURSIVE FirstUsdt(_, _)
FirstUsdt(list, i) ==
    IF i > Len(list) THEN Missing
    ELSE IF list[i].asset = "USDT" THEN list[i].balance
    ELSE FirstUsdt(list, i + 1)

\* the request and the loop, inside the try block
ReadBalance(answer) ==
    IF answer.kind = "raises" THEN Raises ELSE FirstUsdt(answer.list, 1)

BalanceCalls ==
    [fn : {"balance"}, type : TradingTypes, answer : BalanceAnswers,
     done : {FALSE}, result : {NoPrice}]

GetAccountBalance ==
    /\ eval.fn = "balance"
    /\ ~eval.done
    /\ eval' = [eval EXCEPT
                  !.done = TRUE,
                  !.result = get_account_balance(ReadBalance(eval.answer))]
    /\ EngineUnchanged /\ UNCHANGED gate

BalanceSpec == Evaluating(BalanceCalls) /\ [][GetAccountBalance]_vars

\* -------------------------------------- ParameterOptimizer.optimize_risk
\* risk percents are integers in units of 0.001 % (0.01 is 1000)
\* the 0.015 and 0.035 of optimize_risk
RISK_FLOOR == 1500
RISK_CEILING == 3500
\* if len(recent_trades) < 10
MIN_TRADES == 10
\* CONFIG['PERFORMANCE_WINDOW']
PERFORMANCE_WINDOW == 10

\* CONFIG['RISK_PERCENT'] as validate_config accepts it: 0.01 to 0.05
BaseRisks == {1000, 1500, 2500, 3500, 5000}

\* a history of n trades: the oldest are records without a pnl (those the
\* monitor appends), then come `losses` trades that lost l each, then `wins`
\* trades that won w each
TradesOf(n, wins, losses, w, l) ==
    [i \in 1..n |->
        IF i > n - wins THEN [pnl |-> w]
        ELSE IF i > n - wins - losses THEN [pnl |-> 0 - l]
        ELSE TradeRecord(IdleSignal, i)]

TradeHistories ==
    { TradesOf(n, wins, losses, w, l) :
        n \in {MIN_TRADES - 1, MIN_TRADES, MIN_TRADES + 1},
        wins \in {0, 4, 7, 8}, losses \in {0, 1, 2},
        w \in {2, 3}, l \in {1, 2, 3} }

\* _calculate_pnl: trade['pnl'] if 'pnl' in trade, else 0
calculate_pnl(trade) == IF "pnl" \in DOMAIN trade THEN trade.pnl ELSE 0

\* recent_trades[-k:]
LastOf(trades, k) ==
    IF Len(trades) <= k THEN trades
    ELSE SubSeq(trades, Len(trades) - k + 1, Len(trades))

RECURSIVE SumPnl(_)
SumPnl(trades) ==
    IF trades = <<>> THEN 0
    ELSE calculate_pnl(Head(trades)) + SumPnl(Tail(trades))

\* optimize_risk; the means are kept as fractions and the comparisons with
\* 0.7, 1.5, 0.4 and 0.8 are cross-multiplied:
\*   win_rate = len(profitable) / len(recent)
\*   profit_loss_ratio = avg_profit / avg_loss = ratio_num / ratio_den
optimize_risk(base_risk, recent_trades) ==
    IF Len(recent_trades) < MIN_TRADES THEN base_risk
    ELSE
      LET recent == LastOf(recent_trades, PERFORMANCE_WINDOW)
          profitable == SelectSeq(recent, LAMBDA t : calculate_pnl(t) > 0)
          losing == SelectSeq(recent, LAMBDA t : calculate_pnl(t) < 0)
          \* avg_profit = profit_num / profit_den, 0 without a winner
          profit_num == IF profitable = <<>> THEN 0 ELSE SumPnl(profitable)
          profit_den == IF profitable = <<>> THEN 1 ELSE Len(profitable)
          \* avg_loss = loss_num / loss_den, 1 without a loser
          loss_num == IF losing = <<>> THEN 1 ELSE Abs(SumPnl(losing))
          loss_den == IF losing = <<>> THEN 1 ELSE Len(losing)
          ratio_num == profit_num * loss_den
          ratio_den == profit_den * loss_num
          good == /\ 10 * Len(profitable) > 7 * Len(recent)
                  /\ 2 * ratio_num > 3 * ratio_den
          poor == \/ 10 * Len(profitable) < 4 * Len(recent)
                  \/ 10 * ratio_num < 8 * ratio_den
          raised == (base_risk * 12) \div 10
          lowered == (base_risk * 8) \div 10
      IN IF good
         THEN (IF raised < RISK_CEILING THEN raised ELSE RISK_CEILING)
         ELSE IF poor
         THEN (IF lowered > RISK_FLOOR THEN lowered ELSE RISK_FLOOR)
         ELSE base_risk

RiskCalls ==
    [fn : {"optimize_risk"}, base_risk : BaseRisks,
     recent_trades : TradeHistories, done : {FALSE}, result : {0}]

OptimizeRisk ==
    /\ eval.fn = "optimize_risk"
    /\ ~eval.done
    /\ eval' = [eval EXCEPT
                  !.done = TRUE,
                  !.result = optimize_risk(eval.base_risk,
                                           eval.recent_trades)]
    /\ EngineUnchanged /\ UNCHANGED gate

RiskSpec == Evaluating(RiskCalls) /\ [][OptimizeRisk]_vars

\* ------------------------------------------------ calculate_position_size
\* quantities are integers in units of 0.00001 (the grid round(x, 5) rounds
\* to); a quantity that is not on the grid is a fraction num / den. Prices,
\* the ATR and max_position_usd are in money per quantity unit, balances in
\* thousands of it, risk percents in units of 0.001 %.

\* None, as returned by calculate_position_size
NoSize == 0

\* CONFIG['RISK_PERCENT']
RISK_PERCENT == 2000

\* the entries of TRADE_SYMBOLS
SymbolConfigs ==
    [risk_weight : {1},
     stop_multiplier : {[MOMENTUM |-> 2, SWING |-> 1]},
     min_qty : {1, 2},
     max_position_usd : {100, 400}]

Fraction(n, d) == [num |-> n, den |-> d]
Less(x, y) == x.num * y.den < y.num * x.den

\* round(x, 0) of a fraction: to the nearest integer, a tie to the even one
Round(x) ==
    LET q == x.num \div x.den
        twice == 2 * (x.num % x.den)
    IN IF twice > x.den THEN q + 1
       ELSE IF twice < x.den THEN q
       ELSE IF q % 2 = 0 THEN q ELSE q + 1

\* lines 959-963: the optimizer's risk when there is a history
risk_percent(history) ==
    IF history # <<>> THEN optimize_risk(RISK_PERCENT, history)
    ELSE RISK_PERCENT

\* lines 966-982, before the test of min_qty: with balance b (thousands)
\* and risk r (0.001 %), base_risk = b * r / 100;
\*   volatility_adj = min(atr / price * 100, 5.0), so
\*   1 - volatility_adj * 0.1 = (price - 10 * atr) / price, or 1/2 once
\*   20 * atr >= price;
\*   position_size = adjusted_risk / (multiplier * atr), divided by price
\*   for a symbol that ends with USDT; then the min with max_position
ClampedSize(symbol, config, balance, signal_type, atr, price, history) ==
    LET base_risk == ((balance * risk_percent(history)) \div 100)
                        * config.risk_weight
        capped == 20 * atr >= price
        adjusted_risk ==
            IF capped THEN Fraction(base_risk, 2)
            ELSE Fraction(base_risk * (price - 10 * atr), price)
        multiplier == config.stop_multiplier[signal_type]
        per_atr == Fraction(adjusted_risk.num,
                            adjusted_risk.den * multiplier * atr)
        position_size ==
            IF symbol.usdt THEN Fraction(per_atr.num, per_atr.den * price)
            ELSE per_atr
        max_position == Fraction(config.max_position_usd, price)
    IN IF Less(max_position, position_size) THEN max_position
       ELSE position_size

\* calculate_position_size: None when a division by zero raises or the
\* clamped size is under min_qty, else round(position_size, 5)
calculate_position_size(symbol, config, balance, signal_type, atr, price, history) ==
    IF atr = 0 \/ price = 0 THEN NoSize
    ELSE LET position_size == ClampedSize(symbol, config, balance,
                                          signal_type, atr, price,
                                          history)
         IN IF Less(position_size, Fraction(config.min_qty, 1)) THEN NoSize
            ELSE Round(position_size)

\* the calls: a symbol that ends with USDT and one that does not; no
\* history, one of the monitor's own records, one of winning trades
SizeCalls ==
    [fn : {"calculate_position_size"},
     symbol : {[name |-> "BTCUSDT", usdt |-> TRUE],
               [name |-> "ETHBTC", usdt |-> FALSE]},
     config : SymbolConfigs,
     balance : {1, 20, 200},
     signal_type : {"MOMENTUM", "SWING"},
     atr : {0, 1, 5},
     price : {40, 60, 70},
     trade_history : {<<>>, TradesOf(MIN_TRADES, 0, 0, 2, 1),
                      TradesOf(MIN_TRADES, 8, 1, 3, 1)},
     done : {FALSE},
     result : {NoSize}]

CalculatePositionSize ==
    /\ eval.fn = "calculate_position_size"
    /\ ~eval.done
    /\ eval' = [eval EXCEPT
                  !.done = TRUE,
                  !.result = calculate_position_size(
                                 eval.symbol, eval.config, eval.balance,
                                 eval.signal_type, eval.atr, eval.price,
                                 eval.trade_history)]
    /\ EngineUnchanged /\ UNCHANGED gate

SizeSpec == Evaluating(SizeCalls) /\ [][CalculatePositionSize]_vars

\* -------------------------------------------------------- generate_signal
\* momentum, volume_ratio and CONFIG['VOLATILITY_FACTOR'] are in hundredths
VOLATILITY_FACTOR == 150

\* df.iloc[-1]; the Bollinger bands are around a close of 60: close inside
\* them, above the upper one, below the lower one
CurrentRows ==
    LET bands == {[upper |-> 65, lower |-> 55], [upper |-> 58, lower |-> 50],
                  [upper |-> 70, lower |-> 62]}
    IN
    { [momentum |-> m, rsi |-> r, close |-> 60, bb_upper |-> b.upper,
       bb_lower |-> b.lower, ema30 |-> e, ema50 |-> 11, volume_ratio |-> v,
       market_state |-> st, atr |-> a] :
        m \in {3, 6}, r \in {35, 50, 75}, b \in bands,
        e \in {10, 12}, v \in {105, 115, 125},
        st \in {"TRENDING", "RANGING"}, a \in {1, 5} }

\* the frame: its number of rows (0 for df = None), the ATR of the row
\* before the last, and the last row
Frames == [n_rows : {0, 1, 2}, prev_atr : {1}, current : CurrentRows]

\* current['atr'] > df['atr'].mean() * CONFIG['VOLATILITY_FACTOR'], over
\* the two rows of the frame
VolatilityTooHigh(df) ==
    df.current.atr * 2 * 100
        > (df.prev_atr + df.current.atr) * VOLATILITY_FACTOR

\* lines 901-908
momentum_signal(current) ==
    /\ current.momentum > 5
    /\ current.rsi < 70
    /\ current.close > current.bb_upper
    /\ current.ema30 > current.ema50
    /\ current.volume_ratio > 120
    /\ current.market_state = "TRENDING"

\* lines 911-916
swing_signal(current) ==
    /\ current.rsi < 40
    /\ current.close < current.bb_lower
    /\ current.ema30 > current.ema50
    /\ current.volume_ratio > 110

\* (variant: always sized as MOMENTUM)
SizedAsMomentum(current) == "MOMENTUM"
\* line 921: 'MOMENTUM' if momentum_signal else 'SWING'
SizedAs(current) == IF momentum_signal(current) THEN "MOMENTUM" ELSE "SWING"

NoSignal == [type |-> "NONE", size |-> NoSize, price |-> 0]

\* the body of generate_signal, lines 888-953
SignalBody(df, symbol, config, current_balance, history) ==
    IF df.n_rows < 2 THEN NoSignal
    ELSE IF VolatilityTooHigh(df) THEN NoSignal
    ELSE LET current == df.current
             position_size ==
                 calculate_position_size(symbol, config, current_balance,
                                         SizedAs(current), current.atr,
                                         current.close, history)
         IN IF position_size = NoSize THEN NoSignal
            ELSE IF momentum_signal(current)
            THEN [type |-> "MOMENTUM", size |-> position_size,
                  price |-> current.close]
            ELSE IF swing_signal(current)
            THEN [type |-> "SWING", size |-> position_size,
                  price |-> current.close]
            ELSE NoSignal

\* generate_signal as its callers see it: wrapped by system_guard
generate_signal(memory_percent, threads, df, symbol, config, current_balance, history) ==
    IF system_guard(memory_percent, threads)
    THEN SignalBody(df, symbol, config, current_balance, history)
    ELSE NoSignal

SignalSymbol == [name |-> "BTCUSDT", usdt |-> TRUE]
SignalConfig ==
    [risk_weight |-> 1, stop_multiplier |-> [MOMENTUM |-> 2, SWING |-> 1],
     min_qty |-> 1, max_position_usd |-> 400]

SignalCalls ==
    [fn : {"generate_signal"},
     memory_percent : MemoryReadings,
     threads : {3, THREAD_LIMIT + 1},
     df : Frames,
     current_balance : {1, 5, 200},
     done : {FALSE},
     result : {NoSignal}]

GenerateSignal ==
    /\ eval.fn = "generate_signal"
    /\ ~eval.done
    /\ eval' = [eval EXCEPT
                  !.done = TRUE,
                  !.result = generate_signal(eval.memory_percent,
                                 eval.threads, eval.df, SignalSymbol,
                                 SignalConfig, eval.current_balance, <<>>)]
    /\ EngineUnchanged /\ UNCHANGED gate

SignalSpec == Evaluating(SignalCalls) /\ [][GenerateSignal]_vars

\* ------------------------------------- the risk percent of a running engine
\* main, line 1162: generate_signal(df, symbol, current_balance,
\* order_manager.trade_history), whose calculate_position_size takes the risk
\* percent from that history (lines 959-963). The main thread does this
\* between two execute_order calls, while the monitors go on appending
RiskOfHistory ==
    /\ main_pc = "running"
    /\ pc[MainThread] \in {"idle", "returned"}
    /\ eval' = [fn |-> "risk_percent", n |-> Len(trade_history),
                result |-> risk_percent(trade_history)]
    /\ EngineUnchanged /\ UNCHANGED gate

HistoryNext ==
    \/ StartupRecover
    \/ CallerStep(MainThread)
    \/ \E o \in OrderIds : MonitorStep(o)
    \/ RiskOfHistory

\* a start that recovers a history one record short of the number
\* optimize_risk asks for, as the previous run's monitors wrote it
HistorySpec ==
    /\ InitFor({Snapshot(StartupTime, OldOrders, History(MIN_TRADES - 1))},
               {"futures"}, {MAX_OPEN_ORDERS})
    /\ [][HistoryNext]_vars

\* ================================================================ claims
\* the positions of a caller between the start of _pre_execution_check and
\* the end of the with block
InLock ==
    {"pre_check", "place_main", "place_risk", "record", "start_monitor",
     "return_true"}

\* the positions at which the main order has been passed by the check
PastCheck ==
    {"place_main", "place_risk", "record", "start_monitor", "return_true"}

Mutated == open_orders' # open_orders \/ trade_history' # trade_history

main_call == call[MainThread]

\* C1: with several threads calling execute_order of one OrderManager, at most
\* one of them is at any instant between the start of _pre_execution_check and
\* the end of the submission and recording section, and that one holds
\* position_lock.
C1_OneCallInLockedSection ==
    /\ Cardinality({t \in Callers : pc[t] \in InLock}) <= 1
    /\ \A t \in Callers : pc[t] \in InLock => position_lock = t

\* one caller has started a monitor inside the section while the other waits
\* for the lock
C1_Witness ==
    \E t \in Callers, u \in Callers :
        /\ t # u
        /\ pc[t] = "return_true"
        /\ pc[u] = "acquire"

\* C2: every step that changes open_orders or trade_history is taken by the
\* thread that holds position_lock.
C2_MutationsHoldLock ==
    [][Mutated =>
         \E t \in Callers : position_lock = t /\ pc'[t] # pc[t]]_vars

\* C3: position_lock is free again once an execute_order call has returned, on
\* every exit path, so no caller outside the with block holds it and the lock
\* is free whenever no call is inside.
C3_LockFreeAfterReturn ==
    /\ \A t \in Callers : pc[t] \notin InLock => position_lock # t
    /\ (\A t \in Callers : pc[t] \notin InLock) => position_lock = Free

\* a call left through the except clause and a later call of the other thread
\* is inside the with block
C3_Witness ==
    \E t \in Callers, u \in Callers :
        /\ t # u
        /\ pc[t] = "returned"
        /\ call[t].raised
        /\ pc[u] \in InLock
        /\ position_lock = u

C4_FailedCheckInv ==
    /\ main_call.precheck # "none" =>
         /\ pc[MainThread] = "returned"
         /\ main_call.result = "False"
         /\ main_call.main = "none"
         /\ main_call.sl = "none"
         /\ main_call.tp = "none"
         /\ ~main_call.inserted
         /\ ~main_call.started
    /\ (pc[MainThread] \notin {"idle", "acquire", "pre_check"}
        /\ main_call.result # "None"
        /\ (main_call.price = NoPrice \/ main_call.price = 105)) =>
         main_call.precheck \in {"no_price", "slippage"}

C4_FailedCheckStep ==
    (pc[MainThread] = "pre_check" /\ call'[MainThread].precheck # "none") =>
        /\ open_orders' = open_orders
        /\ trade_history' = trade_history
        /\ exch_status' = exch_status
        /\ next_order_id' = next_order_id
        /\ mon' = mon

\* C4: a call whose pre-execution check fails (no price, slippage above
\* MAX_SLIPPAGE as for a price of 105 against a signal price of 100, margin too
\* high, too many open orders) returns False having placed no main order and
\* no risk order, written no open_orders entry and started no monitor; the
\* step of the failing check changes neither open_orders nor trade_history
\* nor anything on the exchange.
C4_FailedCheckPlacesNothing ==
    []C4_FailedCheckInv /\ [][C4_FailedCheckStep]_vars

\* the check failed on a price 5% above the signal price while an earlier
\* order is still tracked
C4_Witness ==
    /\ pc[MainThread] = "returned"
    /\ main_call.precheck = "slippage"
    /\ main_call.price = 105
    /\ \E o \in OrderIds : IntKey(o) \in DOMAIN open_orders

C5_CheckedValues ==
    /\ main_call.price # NoPrice
    /\ Abs(main_call.price - main_call.signal.price) * 100
         <= MAX_SLIPPAGE * main_call.signal.price
    /\ main_call.signal.size * main_call.price * 10
         <= main_call.balance * 8 * LEVERAGE
    /\ main_call.n_open < MAX_OPEN_ORDERS

C5_SubmitStep ==
    call'[MainThread].main # main_call.main =>
        \/ call'[MainThread].main = "none"
        \/ /\ pc[MainThread] = "place_main"
           /\ position_lock = MainThread
           /\ C5_CheckedValues

\* C5: the main order is submitted only in a call whose check, made under the
\* same lock, obtained a price, found the slippage within MAX_SLIPPAGE, found
\* size * price / LEVERAGE within 80% of the balance it read, and counted
\* fewer than MAX_OPEN_ORDERS entries in open_orders.
C5_MainOrderOnlyAfterChecks ==
    /\ [](pc[MainThread] \in PastCheck =>
            C5_CheckedValues /\ position_lock = MainThread)
    /\ [][C5_SubmitStep]_vars

\* the order was accepted at a price exactly MAX_SLIPPAGE above the signal
\* price, with the balance the exchange reported
C5_Witness ==
    /\ pc[MainThread] = "place_risk"
    /\ main_call.main = "ok"
    /\ main_call.price = 101
    /\ main_call.balance = 100
    /\ main_call.n_open = 1

\* C6: from an empty or a recovered mapping, whatever the interleaving of
\* execute_order calls and monitor steps, open_orders never holds more than
\* MAX_OPEN_ORDERS entries.
C6_OpenOrdersWithinCeiling ==
    Cardinality(DOMAIN open_orders) <= MAX_OPEN_ORDERS

\* a recovered entry and a new one fill the mapping and a further call is
\* refused
C6_Witness ==
    /\ Cardinality(DOMAIN open_orders) = MAX_OPEN_ORDERS
    /\ StrKey(MaxOrders + 1) \in DOMAIN open_orders
    /\ main_call.precheck = "too_many"

C7_MainFailureInv ==
    main_call.main = "failed" =>
        /\ pc[MainThread] = "returned"
        /\ main_call.result = "False"
        /\ main_call.sl = "none"
        /\ main_call.tp = "none"
        /\ ~main_call.inserted
        /\ ~main_call.started

C7_MainFailureStep ==
    (pc[MainThread] = "place_main" /\ call'[MainThread].main = "failed") =>
        /\ open_orders' = open_orders
        /\ trade_history' = trade_history
        /\ exch_status' = exch_status
        /\ mon' = mon

\* C7: when _place_main_order returns no order, execute_order returns False
\* with no stop-loss or take-profit attempted, no open_orders entry, no
\* monitor and no trade_history record.
C7_MainFailurePlacesNothing ==
    []C7_MainFailureInv /\ [][C7_MainFailureStep]_vars

\* the main order was refused while an earlier order is being monitored
C7_Witness ==
    /\ pc[MainThread] = "returned"
    /\ main_call.main = "failed"
    /\ \E o \in OrderIds : mon[o].pc = "loop"

C8_RiskFailed ==
    main_call.sl = "failed" \/ main_call.tp = "failed"

C8_RiskStep ==
    (pc[MainThread] = "place_risk" /\ call'[MainThread] # main_call) =>
        /\ pc'[MainThread] = "record"
        /\ position_lock' = MainThread
        /\ exch_status' = exch_status
        /\ next_order_id' = next_order_id
        /\ call'[MainThread].main = "ok"

C8_RiskFailureInv ==
    (pc[MainThread] = "returned" /\ C8_RiskFailed /\ ~main_call.raised) =>
        /\ main_call.main = "ok"
        /\ main_call.result = "True"
        /\ main_call.inserted
        /\ main_call.started

C9_MonitorAfterInsert ==
    \A o \in OrderIds :
        mon[o].pc \in {"loop", "append", "del_filled"} =>
            IntKey(o) \in DOMAIN open_orders

\* the monitor is about to poll for the first time, before execute_order has
\* returned
C9_Witness ==
    \E o \in OrderIds :
        /\ mon[o].pc = "loop"
        /\ mon[o].elapsed = 0
        /\ pc[MainThread] = "return_true"
        /\ IntKey(o) \in DOMAIN open_orders

Outcomes == {"filled", "canceled", "timed_out"}

C10_Ended(o) ==
    /\ mon[o].pc = "done"
    /\ mon[o].outcome \in Outcomes
    /\ IntKey(o) \notin DOMAIN open_orders

\* C10: the monitor of every order that execute_order accepted ends, with
\* exactly one of the outcomes filled, canceled and timed out; once it has
\* ended the outcome never changes and the entry of the order is out of
\* open_orders for good.
C10_OrderReachesOneOutcome ==
    /\ \A o \in OrderIds : (mon[o].pc = "loop") ~> C10_Ended(o)
    /\ [](\A o \in OrderIds :
            /\ mon[o].pc = "done" => C10_Ended(o)
            /\ mon[o].pc # "done" => mon[o].outcome = "none")
    /\ [][\A o \in OrderIds : mon[o].pc = "done" => mon'[o] = mon[o]]_vars

\* a monitor timed out, its cancel request failed, and the entry is gone
C10_Witness ==
    \E o \in OrderIds :
        /\ mon[o].pc = "done"
        /\ mon[o].outcome = "timed_out"
        /\ exch_status[o] = "NEW"
        /\ IntKey(o) \notin DOMAIN open_orders

\* the monitors that are between their start and the removal of their entry
Tracking(o) == mon[o].pc \in {"loop", "append", "del_filled"}

\* C11: every key of open_orders, also after recover_system_state has
\* installed a snapshot, is the id of an order that still awaits its terminal
\* status and is tracked toward removal: its monitor is running, or the call
\* that wrote the entry is about to start it.
C11_EntriesAreTracked ==
    \A k \in DOMAIN open_orders :
        /\ k.kind = "int"
        /\ k.n \in OrderIds
        /\ \/ Tracking(k.n)
           \/ \E t \in Callers :
                 pc[t] = "start_monitor" /\ call[t].order_id = k.n

\* the orders for which a record is in trade_history
Recorded == {o \in OrderIds : mon[o].records > 0}

\* C12: a TradeRecord is appended for an order if and only if its monitor
\* read the status FILLED, and at most once; a monitor that ended on CANCELED
\* or on the timeout without having read FILLED appended none, and
\* trade_history holds exactly the records of the monitors.
C12_RecordIffFilled ==
    /\ \A o \in OrderIds :
          /\ mon[o].records <= 1
          /\ mon[o].records = 1 => mon[o].saw_filled
          /\ mon[o].pc = "done" => (mon[o].saw_filled <=> mon[o].records = 1)
          /\ mon[o].outcome = "canceled" => mon[o].records = 0
    /\ Len(trade_history) = Cardinality(Recorded)

C13_TimeoutInv ==
    \A o \in OrderIds :
        /\ mon[o].outcome = "timed_out" =>
             /\ mon[o].pc = "done"
             /\ mon[o].cancel_sent
             /\ IntKey(o) \notin DOMAIN open_orders
        /\ mon[o].cancel_sent => mon[o].outcome = "timed_out"

C13_TimeoutStep ==
    \A o \in OrderIds :
        (mon[o].pc = "loop" /\ TimedOut(mon[o].elapsed) /\ mon'[o] # mon[o]) =>
            /\ mon'[o].cancel_sent
            /\ mon'[o].outcome = "timed_out"
            /\ IntKey(o) \notin DOMAIN open_orders'
            /\ trade_history' = trade_history

\* C13: a monitor whose window has passed without a terminal status sends the
\* cancel request and removes the entry of its order in the same pass, ending
\* as timed out; the entry is removed also when the cancel request failed and
\* the order stays open on the exchange.
C13_TimeoutCancelsAndRemoves ==
    []C13_TimeoutInv /\ [][C13_TimeoutStep]_vars

\* after a full window of polls the cancel request failed, the order is still
\* open on the exchange, and its entry is gone while another order is tracked
C13_Witness ==
    \E o \in OrderIds, q \in OrderIds :
        /\ mon[o].outcome = "timed_out"
        /\ mon[o].cancel_sent
        /\ mon[o].elapsed = MaxPolls
        /\ exch_status[o] = "NEW"
        /\ IntKey(o) \notin DOMAIN open_orders
        /\ IntKey(q) \in DOMAIN open_orders

\* C14: the timestamps of trade_history never decrease along the list,
\* whatever the interleaving of the monitors that read the clock and append.
C14_TimestampsNonDecreasing ==
    \A i \in 1..(Len(trade_history) - 1) :
        trade_history[i].timestamp <= trade_history[i + 1].timestamp

\* the OrderManager holds nothing
EmptyManager == DOMAIN open_orders = {} /\ trade_history = <<>>

\* recovery.json holds a snapshot older than the threshold at startup
StaleFile ==
    /\ recovery_file.state = "ok"
    /\ StartupTime - recovery_file.timestamp > RECOVERY_MAX_AGE

\* C15: once a run has saved its state and the next run has started from that
\* file, the OrderManager holds the last 50 trades of the saved history and
\* the saved open_orders mapping, the same order ids mapped to the same
\* entries, when the file is within the freshness window, and nothing when it
\* is older.
C15_RoundTrip ==
    (main_pc = "running" /\ previous_run.saved) =>
        IF StaleFile THEN EmptyManager
        ELSE /\ trade_history = LastTrades(previous_run.trade_history)
             /\ open_orders = previous_run.open_orders

C16_NothingCopied ==
    (main_pc = "running" /\ (recovery_file.state # "ok" \/ StaleFile)) =>
        EmptyManager

C16_StartupStep ==
    (main_pc = "startup" /\ main_pc' = "running"
     /\ (recovery_file.state # "ok" \/ StaleFile)) =>
        /\ open_orders' = open_orders
        /\ trade_history' = trade_history

\* C16: when recovery.json is missing, unreadable, or holds a snapshot more
\* than 3600 s older than the load, load_recovery_state returns none and the
\* startup leaves trade_history and open_orders of the new OrderManager
\* empty.
C16_StaleNeverMerged ==
    []C16_NothingCopied /\ [][C16_StartupStep]_vars

\* the run started from a snapshot one second over the threshold that holds
\* orders and trades, and its OrderManager is empty
C16_Witness ==
    /\ main_pc = "running"
    /\ previous_run.saved
    /\ recovery_file.state = "ok"
    /\ StartupTime - recovery_file.timestamp = RECOVERY_MAX_AGE + 1
    /\ DOMAIN recovery_file.open_orders # {}
    /\ Len(recovery_file.trade_history) = HISTORY_KEPT
    /\ EmptyManager

\* C17: at every instant recovery.json is a complete document, the previous
\* snapshot or the new one (or does not exist yet), never a partial one.
C17_FileAlwaysComplete ==
    recovery_file.state \in {"missing", "ok"}

\* C18: when KeyboardInterrupt is delivered while the loop of main is running,
\* in a cycle, in a sleep or in the handling of a caught exception, main does
\* not exit before save_recovery_state has been called on the way out (by the
\* except clause the interrupt reached, or by the one it interrupted).
C18_InterruptSavesBeforeExit ==
    main_loop.pc = "exited" => main_loop.handler_saved

C19_PassEnds == main_loop.pc # "top" /\ main_loop'.pc = "top"

\* C19: a pass of the loop that began more than RECOVERY_SAVE_INTERVAL after
\* the last save does not end, by the normal cycle or by the daily-limit
\* wait, before save_recovery_state has been called.
C19_SavedWhenDue ==
    [][(C19_PassEnds /\ main_loop.due) => main_loop.saved]_vars

\* C20: daily_trade_count, which counts the True results of execute_order
\* since main last reset it for a new day, never exceeds MAX_DAILY_TRADES,
\* whatever the number of symbols and the signals.
C20_DailyCap ==
    main_loop.daily_trade_count <= MAX_DAILY_TRADES

\* C21: an exception raised inside a pass of the loop of main goes to the
\* `except Exception` clause; unless KeyboardInterrupt arrives, the clause
\* calls save_recovery_state, waits for it, sleeps and the loop starts its
\* next pass; main ends only after a KeyboardInterrupt.
C21_HandlerStep ==
    /\ (main_loop.pc = "symbols" /\ main_loop'.pc \notin TryPositions
            /\ ~main_loop'.interrupted)
        => main_loop'.pc = "handler_notify"
    /\ (main_loop.pc = "handler_notify" /\ main_loop' # main_loop
            /\ ~main_loop'.interrupted)
        => main_loop'.pc = "handler_save" /\ main_pc' = "save_read"
    /\ (main_loop.pc = "handler_save" /\ main_loop' # main_loop
            /\ ~main_loop'.interrupted)
        => main_loop'.pc = "handler_sleep" /\ main_pc = "save_done"
    /\ (main_loop.pc = "handler_sleep" /\ main_loop' # main_loop
            /\ ~main_loop'.interrupted)
        => main_loop'.pc = "top"
    /\ main_loop'.pc = "exited" => main_loop'.interrupted

C21_ExceptionNeverEndsMain ==
    /\ [][C21_HandlerStep]_vars
    /\ (main_loop.pc = "handler_notify")
         ~> (main_loop.pc = "top" \/ main_loop.interrupted)

\* the loop is back at its top after the except clause saved and slept
C21_Witness ==
    /\ main_loop.pc = "top"
    /\ main_loop.handler_saved
    /\ ~main_loop.interrupted
    /\ main_pc = "running"

\* C22: any two calls that go through safe_request, from whatever threads
\* and whether or not the earlier one failed, begin at least MIN_SPACING
\* apart.
C22_MinSpacing ==
    gate.begun >= 2 => gate.last_begin - gate.prev_begin >= MIN_SPACING

\* C23: an exchange operation retries a request that failed with a transient
\* error (up to its bound), and never sends another request after one that
\* failed with a business error; this holds for the price lookup and for the
\* submission of the main order.
C23_RetryTransientOnly ==
    eval.result # "pending" =>
        /\ eval.attempts <= PRICE_RETRIES
        /\ \A i \in 1..eval.attempts :
              /\ eval.answers[i] = "business" => eval.attempts = i
              /\ (eval.answers[i] = "transient" /\ i < PRICE_RETRIES)
                    => eval.attempts > i

\* the USDT entries of a balance list that float() accepts
UsdtBalances(answer) ==
    {answer.list[i].balance.v :
        i \in {j \in 1..Len(answer.list) :
                  /\ answer.list[j].asset = "USDT"
                  /\ answer.list[j].balance.kind = "value"}}

C25_RiskWithinBounds ==
    eval.done =>
        IF Len(eval.recent_trades) >= MIN_TRADES
        THEN RISK_FLOOR <= eval.result /\ eval.result <= RISK_CEILING
        ELSE eval.result = eval.base_risk

\* C28: calculate_position_size returns None or a quantity q with
\* min_qty <= q <= max_position_usd / price, and None whenever the clamped
\* quantity is under min_qty; the rounding does not take q out of these
\* bounds.
C28_SizeWithinBounds ==
    (eval.done /\ eval.atr > 0) =>
        LET clamped == ClampedSize(eval.symbol, eval.config, eval.balance,
                                   eval.signal_type, eval.atr, eval.price,
                                   eval.trade_history)
        IN /\ eval.result # NoSize =>
                /\ eval.config.min_qty <= eval.result
                /\ eval.result * eval.price <= eval.config.max_position_usd
           /\ Less(clamped, Fraction(eval.config.min_qty, 1))
                => eval.result = NoSize

\* the conditions of the two rules as the claim states them, read off the
\* last row of the call under way
C26_Row == eval.df.current
C26_GuardPasses == ~VolatilityTooHigh(eval.df)
C26_SixHold ==
    /\ C26_Row.momentum > 5 /\ C26_Row.rsi < 70
    /\ C26_Row.close > C26_Row.bb_upper /\ C26_Row.ema30 > C26_Row.ema50
    /\ C26_Row.volume_ratio > 120 /\ C26_Row.market_state = "TRENDING"
C26_FourHold ==
    /\ C26_Row.rsi < 40 /\ C26_Row.close < C26_Row.bb_lower
    /\ C26_Row.ema30 > C26_Row.ema50 /\ C26_Row.volume_ratio > 110
C26_Size(type) ==
    calculate_position_size(SignalSymbol, SignalConfig, eval.current_balance,
                            type, C26_Row.atr, C26_Row.close, <<>>)
C26_MomentumCase ==
    C26_GuardPasses /\ C26_SixHold /\ C26_Size("MOMENTUM") # NoSize
C26_SwingCase ==
    /\ C26_GuardPasses /\ ~C26_SixHold /\ C26_FourHold
    /\ C26_Size("SWING") # NoSize
C26_SizedByType ==
    eval.result.type \in {"MOMENTUM", "SWING"}
        => eval.result.size = C26_Size(eval.result.type)

\* C26 as stated: generate_signal returns a MOMENTUM signal exactly when the
\* volatility guard passes, the six conditions hold and the sizing succeeds,
\* a SWING signal when MOMENTUM does not fire, the four conditions hold and
\* the sizing with the SWING multipliers succeeds, and None otherwise (for a
\* frame that has a last row and one before it).
C26_SignalRule ==
    (eval.done /\ eval.df.n_rows >= 2) =>
        /\ eval.result.type = "MOMENTUM" <=> C26_MomentumCase
        /\ eval.result.type = "SWING" => C26_SwingCase
        /\ (~C26_MomentumCase /\ ~C26_SwingCase) => eval.result = NoSignal
        /\ C26_SizedByType

\* C26, amended: the same for a call that system_guard lets through with a
\* frame of at least two rows; any other call returns None.
C26_SignalRuleWhenAdmitted ==
    eval.done =>
        IF system_guard(eval.memory_percent, eval.threads)
             /\ eval.df.n_rows >= 2
        THEN /\ eval.result.type = "MOMENTUM" <=> C26_MomentumCase
             /\ eval.result.type = "SWING" <=> C26_SwingCase
             /\ C26_SizedByType
        ELSE eval.result = NoSignal

\* a SWING signal was returned for a row the MOMENTUM sizing would refuse
C26_Witness ==
    /\ eval.done
    /\ eval.result.type = "SWING"
    /\ C26_Size("MOMENTUM") = NoSize

\* C27: a monitor that has ended, with its order filled, canceled or timed
\* out (also when the cancel request of the timeout failed), has sent the
\* send_telegram message that names the symbol and the order id.
C27_TerminalNotified ==
    \A o \in OrderIds : mon[o].pc = "done" => mon[o].notified

\* C29: the number of _monitor_order threads alive at one time never exceeds
\* CONFIG['MAX_OPEN_ORDERS'] (each order id has the one monitor that
\* execute_order started for it).
C29_MonitorsBounded ==
    Cardinality(LiveMonitors) <= max_open_orders

\* C30: a call of execute_order that returned False or None has had no main
\* order accepted by the exchange and has written no open_orders entry.
C30_NothingAcceptedUnlessTrue ==
    \A t \in Callers :
        (pc[t] = "returned" /\ call[t].result # "True") =>
            /\ call[t].main # "ok"
            /\ ~call[t].inserted

\* the step in which the call of the main thread runs _place_risk_orders:
\* the stop-loss request is made, and the take-profit request is made if and
\* only if the stop-loss request succeeded
C31_RiskStep ==
    (pc[MainThread] = "place_risk" /\ pc'[MainThread] # "place_risk") =>
        LET c == call'[MainThread] IN
          /\ main_call.sl = "none" /\ main_call.tp = "none"
          /\ c.sl \in {"ok", "failed"}
          /\ (c.tp \in {"ok", "failed"}) <=> (c.sl = "ok")
          /\ c.main = "ok"

\* nothing takes back what _place_risk_orders did: the record of the two
\* requests changes only there and when the next call begins
C31_KeptStep ==
    (call'[MainThread].sl # main_call.sl \/ call'[MainThread].tp # main_call.tp)
        => \/ pc[MainThread] = "place_risk"
           \/ /\ pc[MainThread] \in {"idle", "returned"}
              /\ call'[MainThread].sl = "none"
              /\ call'[MainThread].tp = "none"

\* C31: in _place_risk_orders the take-profit order is attempted if and only
\* if the stop-loss placement succeeded: after a failed stop-loss placement
\* the call has placed neither protective order, and after a failed
\* take-profit placement the stop-loss it placed stays placed for the rest of
\* the call.
C31_TakeProfitIffStopLoss ==
    /\ [](/\ main_call.sl = "failed" => main_call.tp = "none"
          /\ main_call.tp # "none" => main_call.sl = "ok"
          /\ (main_call.sl = "ok" /\ pc[MainThread] # "place_risk")
                => main_call.tp \in {"ok", "failed"})
    /\ [][C31_RiskStep]_vars
    /\ [][C31_KeptStep]_vars

\* the stop-loss was placed, the take-profit request failed, and the call
\* went on to record the order
C31_Witness ==
    /\ main_call.sl = "ok"
    /\ main_call.tp = "failed"
    /\ main_call.inserted

\* max(base_risk * 0.8, 0.015) for the configured RISK_PERCENT
C32_ReducedRisk ==
    IF (RISK_PERCENT * 8) \div 10 > RISK_FLOOR
    THEN (RISK_PERCENT * 8) \div 10 ELSE RISK_FLOOR

\* C32: no record of trade_history, recovered or appended by _monitor_order,
\* has a pnl field, so _calculate_pnl gives 0 for each of them; and whenever
\* the risk percent is taken from a trade_history of at least 10 such records,
\* it is max(RISK_PERCENT * 0.8, 0.015), the value of the reduce-risk branch,
\* and neither RISK_PERCENT * 1.2 nor RISK_PERCENT unchanged.
C32_HistoryAlwaysReducesRisk ==
    /\ \A i \in DOMAIN trade_history :
          /\ "pnl" \notin DOMAIN trade_history[i]
          /\ calculate_pnl(trade_history[i]) = 0
    /\ (eval # NoEval /\ eval.n >= MIN_TRADES) =>
          /\ eval.result = C32_ReducedRisk
          /\ eval.result # (RISK_PERCENT * 12) \div 10
          /\ eval.result # RISK_PERCENT
    /\ Len(trade_history) >= MIN_TRADES =>
          optimize_risk(RISK_PERCENT, trade_history) = C32_ReducedRisk

\* the risk percent was taken from a history of eleven records, two of them
\* appended by monitors of this run
C32_Witness ==
    /\ eval # NoEval
    /\ eval.n = MIN_TRADES + 1
    /\ eval.result = C32_ReducedRisk
    /\ Len(trade_history) = MIN_TRADES + 1
    /\ \A o \in {1, 2} : mon[o].records = 1

====
